---- MODULE Spec2Model ----
(***************************************************************************)
(* A model of functions/source/account/account.py: the Lambda handler that *)
(* extends a CloudFormation stack set to new accounts and regions.         *)
(*                                                                         *)
(* One handler invocation is a sequential program; its position is pc[p].  *)
(* Every call to an external service (Secrets Manager, CloudFormation,     *)
(* SNS, the telemetry endpoint) is one step whose outcome the environment  *)
(* chooses.  calls[p] is the sequence of external calls the invocation has *)
(* issued so far.  Strings that the code takes apart or concatenates are   *)
(* sequences of tokens ("." is a token of its own).                        *)
(***************************************************************************)
EXTENDS Integers, Sequences, FiniteSets, TLC

\* ------------------------------------------------------------------ bounds
MaxInvocations == 2   \* handler invocations in one behaviour
MaxDeliveries == 3    \* the same, in the runs of the lifecycle path alone
MaxRecords == 2       \* records of one queued event
MaxEntries == 2       \* deployment-group entries of one message body
MaxPages == 2         \* pages of one list_stack_set_operations listing

\* --------------------------------------------------------- program constants
CONFIG_NAME_PREFIX == <<"Lacework-Control-Tower-Config-Member-">>
FailureToleranceCount == 999
SleepSeconds == 20

\* ----------------------------------------------------------- input universes
Procs == {1, 2}            \* concurrent handler invocations (Lambda instances)
SeqProcs == {1}            \* the one invocation slot of the sequential runs
Accounts == {"a1", "a2"}
Regions == {"r1"}
TenantNames == {<<"acme">>, <<"sub">>}
GroupNames == {CONFIG_NAME_PREFIX \o n : n \in TenantNames}
Places == Accounts \X Regions

\* os.environ: the two naming options (the topic and the secret id are fixed)
Urls == {<<"acme", ".", "lacework", ".", "net">>}
SubAccountNames == {<<>>, <<"sub">>}
lacework_account_sns == "arn:lacework_account_sns"
lacework_api_credentials == "lacework_api_credentials"

\* params of one entry of a queued message body
Params ==
  { [target_accounts |-> <<"a1">>, target_regions |-> <<"r1">>],
    [target_accounts |-> <<"a2", "a1">>, target_regions |-> <<"r1">>] }

\* A message body: a JSON object, read into a dict that keeps insertion order.
\* It is a sequence of (name, params) entries with distinct names.
Entry(name, params) == [name |-> name, params |-> params]
DistinctNames(body) ==
  \A i, j \in 1..Len(body) : i # j => body[i].name # body[j].name
Bodies ==
  { b \in UNION { [1..n -> [name : GroupNames, params : Params]]
                  : n \in 1..MaxEntries } : DistinctNames(b) }

\* json.dumps / json.loads: a text is either the encoding of a value or garbage
NotJson == [text |-> "garbage"]
dumps(value) == [text |-> "json", value |-> value]
IsJson(text) == text.text = "json"
loads(text) == text.value

SnsRecord(text) == [Sns |-> [Message |-> text]]

LifecycleEvent(name, state, account, region) ==
  [detail |-> [eventName |-> name,
               awsRegion |-> region,
               serviceEventDetails |->
                 [createManagedAccountStatus |->
                    [state |-> state, account |-> [accountId |-> account]]]]]

LifecycleEvents ==
  { LifecycleEvent("CreateManagedAccount", s, a, r) :
      s \in {"SUCCEEDED", "FAILED"}, a \in Accounts, r \in Regions }

OtherEvents ==
  { LifecycleEvent("UpdateManagedAccount", "SUCCEEDED", "a1", "r1"),
    [detail |-> [awsRegion |-> "r1"]],
    [source |-> "aws.events"] }

\* A queued event: one record with any body, or several records, each with a
\* well-formed one-entry body or a text that is no JSON
QueuedRecords == { SnsRecord(dumps(b)) : b \in Bodies } \cup { SnsRecord(NotJson) }
ShortRecords ==
  { SnsRecord(dumps(<<Entry(CONFIG_NAME_PREFIX \o <<"acme">>, p)>>)) :
      p \in { q \in Params : Len(q.target_accounts) > 1 } }
  \cup { SnsRecord(NotJson) }
QueuedEvents ==
  { [Records |-> <<r>>] : r \in QueuedRecords }
  \cup
  { [Records |-> rs] : rs \in UNION { [1..n -> ShortRecords] : n \in 2..MaxRecords } }


\* list_stack_set_operations: one page either has "Summaries" or has not
OperationPages ==
  { [ResponseMetadata |-> "200"],
    [Summaries |-> <<>>],
    [Summaries |-> <<[Status |-> "SUCCEEDED"]>>],
    [Summaries |-> <<[Status |-> "RUNNING"]>>],
    [Summaries |-> <<[Status |-> "FAILED"], [Status |-> "STOPPING"]>>] }
Listings == UNION { [1..n -> OperationPages] : n \in 0..MaxPages }

\* Secrets Manager: what get_secret_value can answer
NoneValue == "<None>"
SecretOutcomes ==
  { [error |-> TRUE],
    [error |-> FALSE, response |-> [SecretBinary |-> "b"]],
    [error |-> FALSE, response |-> [SecretString |-> NotJson]],
    [error |-> FALSE, response |-> [SecretString |-> dumps([Other |-> "x"])]],
    [error |-> FALSE, response |-> [SecretString |-> dumps([AccessToken |-> "t0k3n"])]] }

\* ---------------------------------------------------------------- the state
VARIABLES
  environ,              \* os.environ: lacework_url, lacework_sub_account_name
  topic,                \* texts published to the lacework_account_sns topic
  instances,            \* the stack instances CloudFormation holds of the configured
                        \* stack set (the one list_stack_instances is asked about)
  created,              \* history: the create_stack_instances calls CloudFormation
                        \* accepted, per account and region of the configured stack
                        \* set, while queueInput is FALSE
  queueInput,           \* history: a queued event from outside was delivered
  started,              \* handler invocations started so far
  pc,                   \* position of each invocation in the code
  event,                \* lambda_handler's event
  rec,                  \* stack_set_sns_processing: index of the next record
  messages,             \* cfn_stack_set_processing's argument
  idx,                  \* cfn_stack_set_processing: index of the current entry
  batch,                \* calls of cfn_stack_set_processing in this invocation
  access_token,
  stack_operations,
  stack_set_instances,
  exc,                  \* the exception in flight, "none" if there is none
  calls,                \* external calls issued by the invocation, in order
  result                \* how lambda_handler ended: "returned" or "raised"

envVars == <<environ, topic, instances, created, queueInput, started>>
localVars == <<pc, event, rec, messages, idx, batch, access_token,
               stack_operations, stack_set_instances, exc, calls, result>>
vars == <<environ, topic, instances, created, queueInput, started,
          pc, event, rec, messages, idx, batch, access_token,
          stack_operations, stack_set_instances, exc, calls, result>>

NoEvent == [source |-> "none"]
PyList(items) == [type |-> "list", items |-> items]
PyFalse == [type |-> "bool", items |-> <<>>]

Init ==
  /\ environ \in [lacework_url : Urls, lacework_sub_account_name : SubAccountNames]
  /\ topic = {}
  /\ instances = {}
  /\ created = [t \in Places |-> 0]
  /\ queueInput = FALSE
  /\ started = 0
  /\ pc = [p \in Procs |-> "idle"]
  /\ event = [p \in Procs |-> NoEvent]
  /\ rec = [p \in Procs |-> 1]
  /\ messages = [p \in Procs |-> <<>>]
  /\ idx = [p \in Procs |-> 1]
  /\ batch = [p \in Procs |-> 0]
  /\ access_token = [p \in Procs |-> NoneValue]
  /\ stack_operations = [p \in Procs |-> TRUE]
  /\ stack_set_instances = [p \in Procs |-> PyList(<<>>)]
  /\ exc = [p \in Procs |-> "none"]
  /\ calls = [p \in Procs |-> <<>>]
  /\ result = [p \in Procs |-> "none"]

\* ------------------------------------------------------------ pure functions
\* a tenant name that is the whole URL
get_account_from_url_whole(lacework_url) == lacework_url

\* get_account_from_url: lacework_url.split('.')[0]
get_account_from_url(lacework_url) ==
  LET dots == { i \in 1..Len(lacework_url) : lacework_url[i] = "." }
  IN  IF dots = {} THEN lacework_url
      ELSE SubSeq(lacework_url, 1, (CHOOSE i \in dots : \A j \in dots : i <= j) - 1)

\* lines 72-73: the name of the stack set of the configured tenant
ConfigStackSetName(env) ==
  LET lacework_account_name == get_account_from_url(env.lacework_url)
      lacework_sub_account_name == env.lacework_sub_account_name
  IN  CONFIG_NAME_PREFIX \o (IF lacework_sub_account_name = <<>>
                               THEN lacework_account_name
                               ELSE lacework_sub_account_name)

\* lines 121-124: the inner loop; FALSE as soon as a busy operation is met
RECURSIVE ScanSummaries(_, _)
ScanSummaries(summaries, i) ==
  IF i > Len(summaries) THEN TRUE
  ELSE IF summaries[i].Status \in {"RUNNING", "STOPPING"} THEN FALSE
  ELSE ScanSummaries(summaries, i + 1)

\* a scan that stops after the first page of the listing
ScanPages_first_page(pages, i) ==
  IF Len(pages) = 0 THEN TRUE
  ELSE IF "Summaries" \in DOMAIN pages[1]
       THEN ScanSummaries(pages[1].Summaries, 1)
       ELSE TRUE

\* lines 113-126: the value of stack_operations after the paginator loop
RECURSIVE ScanPages(_, _)
ScanPages(pages, i) ==
  IF i > Len(pages) THEN TRUE
  ELSE IF "Summaries" \in DOMAIN pages[i]
       THEN IF ScanSummaries(pages[i].Summaries, 1)
            THEN ScanPages(pages, i + 1)
            ELSE FALSE
       ELSE ScanPages(pages, i + 1)

\* lines 197-212: get_access_token's return value for one answer of the store
get_access_token(outcome) ==
  IF outcome.error THEN NoneValue
  ELSE IF "SecretString" \notin DOMAIN outcome.response THEN NoneValue
  ELSE IF ~IsJson(outcome.response.SecretString) THEN NoneValue
  ELSE IF "AccessToken" \notin DOMAIN loads(outcome.response.SecretString) THEN NoneValue
  ELSE loads(outcome.response.SecretString).AccessToken

\* messages[config_stack_set_name]
Lookup(body, name) ==
  body[CHOOSE i \in 1..Len(body) : body[i].name = name].params

\* what the environment saw: some operation of the listing is RUNNING or STOPPING
HasBusyOperation(listing) ==
  \E i \in 1..Len(listing) :
    /\ "Summaries" \in DOMAIN listing[i]
    /\ \E j \in 1..Len(listing[i].Summaries) :
         listing[i].Summaries[j].Status \in {"RUNNING", "STOPPING"}

\* one external call, as recorded in calls[p]
Call(op, b, name, outcome) ==
  [op |-> op, batch |-> b, StackSetName |-> name, outcome |-> outcome,
   Accounts |-> <<>>, Regions |-> <<>>, FailureToleranceCount |-> 0,
   AccessToken |-> NoneValue, TopicArn |-> "", Message |-> NotJson, seconds |-> 0,
   NextToken |-> FALSE]


\* ------------------------------------------------------------------ helpers
Goto(p, label) == pc' = [pc EXCEPT ![p] = label]
Log(p, call) == calls' = [calls EXCEPT ![p] = Append(@, call)]
Raise(p, name, label) ==
  /\ exc' = [exc EXCEPT ![p] = name]
  /\ pc' = [pc EXCEPT ![p] = label]

\* where control goes when cfn_stack_set_processing returns: back into the
\* loop of stack_set_sns_processing (line 56), or to the end of
\* lifecycle_eventbridge_processing and so of lambda_handler
AfterCfn(p) == IF "Records" \in DOMAIN event[p] THEN "sns_loop" ELSE "return"

CurrentEntry(p) == messages[p][idx[p]]

\* ------------------------------------------------- deliveries (the runtime)
\* The runtime invokes lambda_handler with a fresh frame.
Start(p, ev, external) ==
  /\ pc[p] \in {"idle", "done"}
  /\ queueInput' = (queueInput \/ external)
  /\ pc' = [pc EXCEPT ![p] = "lambda_handler"]
  /\ event' = [event EXCEPT ![p] = ev]
  /\ rec' = [rec EXCEPT ![p] = 1]
  /\ messages' = [messages EXCEPT ![p] = <<>>]
  /\ idx' = [idx EXCEPT ![p] = 1]
  /\ batch' = [batch EXCEPT ![p] = 0]
  /\ access_token' = [access_token EXCEPT ![p] = NoneValue]
  /\ stack_operations' = [stack_operations EXCEPT ![p] = TRUE]
  /\ stack_set_instances' = [stack_set_instances EXCEPT ![p] = PyList(<<>>)]
  /\ exc' = [exc EXCEPT ![p] = "none"]
  /\ calls' = [calls EXCEPT ![p] = <<>>]
  /\ result' = [result EXCEPT ![p] = "none"]
  /\ UNCHANGED <<environ, topic, instances, created>>

\* an invocation, counted against the number of invocations of the behaviour
Invoke(p, ev, external, limit) ==
  /\ started < limit
  /\ started' = started + 1
  /\ Start(p, ev, external)

\* a queued event that some other producer put on the topic
DeliverQueued(p, limit) == \E ev \in QueuedEvents : Invoke(p, ev, TRUE, limit)

\* the transport delivers (or redelivers) a text this program published
DeliverRequeued(p, limit) ==
  \E text \in topic : Invoke(p, [Records |-> <<SnsRecord(text)>>], FALSE, limit)

\* a Control Tower lifecycle notification (delivered at least once)
DeliverLifecycle(p, limit) == \E ev \in LifecycleEvents : Invoke(p, ev, FALSE, limit)

\* an event of any other shape
DeliverOther(p, limit) == \E ev \in OtherEvents : Invoke(p, ev, TRUE, limit)

\* ----------------------------------------------------------- lambda_handler
\* lines 41-49: the dispatch on the shape of the event
LambdaHandler(p) ==
  /\ pc[p] = "lambda_handler"
  /\ IF "Records" \in DOMAIN event[p]
       THEN Goto(p, "sns_loop") /\ UNCHANGED exc
     ELSE IF "detail" \in DOMAIN event[p]
       THEN IF "eventName" \notin DOMAIN event[p].detail
              THEN Raise(p, "KeyError", "handler_except")
            ELSE IF event[p].detail.eventName = "CreateManagedAccount"
              THEN Goto(p, "lifecycle") /\ UNCHANGED exc
            ELSE Goto(p, "return") /\ UNCHANGED exc
     ELSE Goto(p, "return") /\ UNCHANGED exc
  /\ UNCHANGED <<envVars, event, rec, messages, idx, batch, access_token,
                 stack_operations, stack_set_instances, calls, result>>

\* a handler that logs the failure and raises it again
LambdaHandlerExcept_reraise(p) ==
  /\ pc[p] = "handler_except"
  /\ Goto(p, "return")
  /\ UNCHANGED <<envVars, event, rec, messages, idx, batch, access_token,
                 stack_operations, stack_set_instances, exc, calls, result>>

\* lines 50-51: except Exception: the failure is logged and swallowed
LambdaHandlerExcept(p) ==
  /\ pc[p] = "handler_except"
  /\ exc' = [exc EXCEPT ![p] = "none"]
  /\ Goto(p, "return")
  /\ UNCHANGED <<envVars, event, rec, messages, idx, batch, access_token,
                 stack_operations, stack_set_instances, calls, result>>

\* lambda_handler ends: normally, or with the exception still in flight
LambdaHandlerEnd(p) ==
  /\ pc[p] = "return"
  /\ result' = [result EXCEPT ![p] = IF exc[p] = "none" THEN "returned" ELSE "raised"]
  /\ Goto(p, "done")
  /\ UNCHANGED <<envVars, event, rec, messages, idx, batch, access_token,
                 stack_operations, stack_set_instances, exc, calls>>

\* ------------------------------------------------- stack_set_sns_processing
\* lines 56-58: the next record is parsed and handed to the Orchestrator
StackSetSnsProcessing(p) ==
  /\ pc[p] = "sns_loop"
  /\ LET records == event[p].Records IN
     IF rec[p] > Len(records)
       THEN /\ Goto(p, "return")
            /\ UNCHANGED <<rec, messages, idx, batch, exc>>
     ELSE IF ~IsJson(records[rec[p]].Sns.Message)
       THEN /\ Raise(p, "JSONDecodeError", "handler_except")
            /\ UNCHANGED <<rec, messages, idx, batch>>
     ELSE /\ messages' = [messages EXCEPT ![p] = loads(records[rec[p]].Sns.Message)]
          /\ rec' = [rec EXCEPT ![p] = @ + 1]
          /\ idx' = [idx EXCEPT ![p] = 1]
          /\ batch' = [batch EXCEPT ![p] = @ + 1]
          /\ Goto(p, "get_access_token")
          /\ UNCHANGED exc
  /\ UNCHANGED <<envVars, event, access_token, stack_operations,
                 stack_set_instances, calls, result>>


\* -------------------------------------------------- cfn_stack_set_processing
\* line 99: the credential is fetched once per call of the Orchestrator
GetAccessToken(p) ==
  /\ pc[p] = "get_access_token"
  /\ \E outcome \in SecretOutcomes :
       /\ access_token' = [access_token EXCEPT ![p] = get_access_token(outcome)]
       /\ Log(p, [Call("get_secret_value", batch[p], <<>>,
                       IF outcome.error THEN "ClientError" ELSE "ok")
                    EXCEPT !.AccessToken = get_access_token(outcome)])
  /\ Goto(p, "check_token")
  /\ UNCHANGED <<envVars, event, rec, messages, idx, batch, stack_operations,
                 stack_set_instances, exc, result>>

\* an Orchestrator that goes on without a token
CheckToken_no_return(p) ==
  /\ pc[p] = "check_token"
  /\ Goto(p, "entry_loop")
  /\ UNCHANGED <<envVars, event, rec, messages, idx, batch, access_token,
                 stack_operations, stack_set_instances, exc, calls, result>>

\* lines 101-103: without a token the whole batch is given up
CheckToken(p) ==
  /\ pc[p] = "check_token"
  /\ IF access_token[p] = NoneValue
       THEN Goto(p, AfterCfn(p))
       ELSE Goto(p, "entry_loop")
  /\ UNCHANGED <<envVars, event, rec, messages, idx, batch, access_token,
                 stack_operations, stack_set_instances, exc, calls, result>>

\* lines 105-110: the next entry of messages.items(), or the end of the loop
EntryLoop(p) ==
  /\ pc[p] = "entry_loop"
  /\ IF idx[p] > Len(messages[p])
       THEN Goto(p, AfterCfn(p))
       ELSE Goto(p, "describe")
  /\ UNCHANGED <<envVars, event, rec, messages, idx, batch, access_token,
                 stack_operations, stack_set_instances, exc, calls, result>>

\* a describe whose failure is ignored
DescribeStackSet_ignore_errors(p) ==
  /\ pc[p] = "describe"
  /\ \E outcome \in {"ok", "StackSetNotFoundException", "ClientError"} :
       Log(p, Call("describe_stack_set", batch[p], CurrentEntry(p).name, outcome))
  /\ Goto(p, "list")
  /\ stack_operations' = [stack_operations EXCEPT ![p] = TRUE]
  /\ UNCHANGED <<envVars, event, rec, messages, idx, batch, access_token,
                 stack_set_instances, exc, result>>

\* lines 113-114: describe_stack_set
DescribeStackSet(p) ==
  /\ pc[p] = "describe"
  /\ \E outcome \in {"ok", "StackSetNotFoundException", "ClientError"} :
       /\ Log(p, Call("describe_stack_set", batch[p], CurrentEntry(p).name, outcome))
       /\ IF outcome = "ok"
            THEN Goto(p, "list") /\ UNCHANGED exc
            ELSE Raise(p, outcome, "cfn_except")
  /\ stack_operations' = [stack_operations EXCEPT ![p] = TRUE]
  /\ UNCHANGED <<envVars, event, rec, messages, idx, batch, access_token,
                 stack_set_instances, result>>

\* lines 115-128: the operations of the stack set are listed page by page and
\* the branch on stack_operations is taken
ListStackSetOperations(p) ==
  /\ pc[p] = "list"
  /\ \/ \E listing \in Listings :
          /\ stack_operations' = [stack_operations EXCEPT ![p] = ScanPages(listing, 1)]
          /\ Log(p, Call("list_stack_set_operations", batch[p], CurrentEntry(p).name,
                         IF HasBusyOperation(listing) THEN "busy" ELSE "quiet"))
          /\ Goto(p, IF ScanPages(listing, 1) THEN "create" ELSE "sleep")
          /\ UNCHANGED exc
     \/ /\ Log(p, Call("list_stack_set_operations", batch[p], CurrentEntry(p).name,
                       "ClientError"))
        /\ Raise(p, "ClientError", "cfn_except")
        /\ UNCHANGED stack_operations
  /\ UNCHANGED <<envVars, event, rec, messages, idx, batch, access_token,
                 stack_set_instances, result>>

\* a call with the accounts and the regions in each other's place
CreateArguments_swapped(b, entry, token) ==
  [Call("create_stack_instances", b, entry.name, "ok") EXCEPT
     !.Accounts = entry.params.target_regions,
     !.Regions = entry.params.target_accounts,
     !.AccessToken = token,
     !.FailureToleranceCount = FailureToleranceCount]

\* lines 129-143: the arguments of create_stack_instances
CreateArguments(b, entry, token) ==
  [Call("create_stack_instances", b, entry.name, "ok") EXCEPT
     !.Accounts = entry.params.target_accounts,
     !.Regions = entry.params.target_regions,
     !.AccessToken = token,
     !.FailureToleranceCount = FailureToleranceCount]

\* the accounts and regions of the configured stack set that a call targets
TargetPlaces(call) ==
  IF call.StackSetName = ConfigStackSetName(environ)
    THEN { <<call.Accounts[i], call.Regions[j]>> :
             i \in 1..Len(call.Accounts), j \in 1..Len(call.Regions) }
    ELSE {}

\* a create that holds a lock on the stack set: it waits while another
\* invocation that found the stack set quiet has its create pending or issued
CreateStackInstances_locked(p) ==
  /\ pc[p] = "create"
  /\ \A q \in Procs \ {p} :
       /\ ~( /\ pc[q] = "create" /\ q < p
             /\ CurrentEntry(q).name = CurrentEntry(p).name )
       /\ \A i \in DOMAIN calls[q] :
            ~( /\ calls[q][i].op = "create_stack_instances"
               /\ calls[q][i].StackSetName = CurrentEntry(p).name )
  /\ LET call == CreateArguments(batch[p], CurrentEntry(p), access_token[p]) IN
     \/ /\ Log(p, call)
        /\ instances' = instances \cup TargetPlaces(call)
        /\ created' = [t \in Places |->
                         IF t \in TargetPlaces(call) /\ ~queueInput
                           THEN created[t] + 1 ELSE created[t]]
        /\ idx' = [idx EXCEPT ![p] = @ + 1]
        /\ Goto(p, "entry_loop")
        /\ UNCHANGED exc
     \/ /\ Log(p, [call EXCEPT !.outcome = "ClientError"])
        /\ Raise(p, "ClientError", "cfn_except")
        /\ UNCHANGED <<instances, created, idx>>
  /\ UNCHANGED <<environ, topic, queueInput, started, event, rec, messages, batch,
                 access_token, stack_operations, stack_set_instances, result>>

\* a create that is skipped when every targeted instance already exists
CreateStackInstances_once(p) ==
  /\ pc[p] = "create"
  /\ LET call == CreateArguments(batch[p], CurrentEntry(p), access_token[p]) IN
     IF TargetPlaces(call) # {} /\ TargetPlaces(call) \subseteq instances
       THEN /\ idx' = [idx EXCEPT ![p] = @ + 1]
            /\ Goto(p, "entry_loop")
            /\ UNCHANGED <<instances, created, exc, calls>>
       ELSE /\ Log(p, call)
            /\ instances' = instances \cup TargetPlaces(call)
            /\ created' = [t \in Places |->
                             IF t \in TargetPlaces(call) /\ ~queueInput
                               THEN created[t] + 1 ELSE created[t]]
            /\ idx' = [idx EXCEPT ![p] = @ + 1]
            /\ Goto(p, "entry_loop")
            /\ UNCHANGED exc
  /\ UNCHANGED <<environ, topic, queueInput, started, event, rec, messages, batch,
                 access_token, stack_operations, stack_set_instances, result>>

\* lines 129-145: create_stack_instances; a call that succeeds adds the instances
CreateStackInstances(p) ==
  /\ pc[p] = "create"
  /\ LET call == CreateArguments(batch[p], CurrentEntry(p), access_token[p]) IN
     \/ /\ Log(p, call)
        /\ instances' = instances \cup TargetPlaces(call)
        /\ created' = [t \in Places |->
                         IF t \in TargetPlaces(call) /\ ~queueInput
                           THEN created[t] + 1 ELSE created[t]]
        /\ idx' = [idx EXCEPT ![p] = @ + 1]
        /\ Goto(p, "entry_loop")
        /\ UNCHANGED exc
     \/ /\ Log(p, [call EXCEPT !.outcome = "ClientError"])
        /\ Raise(p, "ClientError", "cfn_except")
        /\ UNCHANGED <<instances, created, idx>>
  /\ UNCHANGED <<environ, topic, queueInput, started, event, rec, messages, batch,
                 access_token, stack_operations, stack_set_instances, result>>

\* a re-queue that does not wait before it publishes
SleepBeforeRequeue_no_wait(p) ==
  /\ pc[p] = "sleep"
  /\ Goto(p, "publish")
  /\ UNCHANGED <<envVars, event, rec, messages, idx, batch, access_token,
                 stack_operations, stack_set_instances, exc, calls, result>>

\* lines 147-151: the entry is busy; time.sleep(20) before it is re-queued
SleepBeforeRequeue(p) ==
  /\ pc[p] = "sleep"
  /\ Log(p, [Call("sleep", batch[p], CurrentEntry(p).name, "ok")
               EXCEPT !.seconds = SleepSeconds])
  /\ Goto(p, "publish")
  /\ UNCHANGED <<envVars, event, rec, messages, idx, batch, access_token,
                 stack_operations, stack_set_instances, exc, result>>

\* a re-queue that publishes an empty message body
RequeueBody_empty(body, name) == <<>>

\* line 148: message_body = {config_stack_set_name: messages[config_stack_set_name]}
RequeueBody(body, name) == <<Entry(name, Lookup(body, name))>>

\* a publish whose failure is left to the outer try block
PublishRequeue_raising(p) ==
  /\ pc[p] = "publish"
  /\ LET text == dumps(RequeueBody(messages[p], CurrentEntry(p).name))
         call == [Call("publish", batch[p], CurrentEntry(p).name, "ok") EXCEPT
                    !.TopicArn = lacework_account_sns, !.Message = text]
     IN \/ /\ Log(p, call)
           /\ topic' = topic \cup {text}
           /\ idx' = [idx EXCEPT ![p] = @ + 1]
           /\ Goto(p, "entry_loop")
           /\ UNCHANGED exc
        \/ /\ Log(p, [call EXCEPT !.outcome = "ClientError"])
           /\ Raise(p, "ClientError", "cfn_except")
           /\ UNCHANGED <<topic, idx>>
  /\ UNCHANGED <<environ, instances, created, queueInput, started, event, rec,
                 messages, batch, access_token, stack_operations,
                 stack_set_instances, result>>

\* lines 152-158: sns publish; its failure is logged and absorbed
PublishRequeue(p) ==
  /\ pc[p] = "publish"
  /\ LET text == dumps(RequeueBody(messages[p], CurrentEntry(p).name))
         call == [Call("publish", batch[p], CurrentEntry(p).name, "ok") EXCEPT
                    !.TopicArn = lacework_account_sns, !.Message = text]
     IN \/ /\ Log(p, call)
           /\ topic' = topic \cup {text}
        \/ /\ Log(p, [call EXCEPT !.outcome = "ClientError"])
           /\ UNCHANGED topic
  /\ idx' = [idx EXCEPT ![p] = @ + 1]
  /\ Goto(p, "entry_loop")
  /\ UNCHANGED <<environ, instances, created, queueInput, started, event, rec,
                 messages, batch, access_token, stack_operations,
                 stack_set_instances, exc, result>>

\* an except clause that treats every failure as "busy" and re-queues the entry
CfnExcept_requeue(p) ==
  /\ pc[p] = "cfn_except"
  /\ exc' = [exc EXCEPT ![p] = "none"]
  /\ Goto(p, "sleep")
  /\ UNCHANGED <<envVars, event, rec, messages, idx, batch, access_token,
                 stack_operations, stack_set_instances, calls, result>>

\* lines 160-162: the only except clause of the try block.  Whatever the try
\* block raised, the clause ends in a raise: a stack-set-not-found error is
\* re-raised (line 162), and evaluating the clause's expression
\* exceptions.stack_setNotFoundException (no such attribute of the client's
\* exceptions) raises AttributeError for every exception that reaches it.
CfnExcept(p) ==
  /\ pc[p] = "cfn_except"
  /\ Raise(p, "AttributeError", "cfn_raise")
  /\ UNCHANGED <<envVars, event, rec, messages, idx, batch, access_token,
                 stack_operations, stack_set_instances, calls, result>>

\* cfn_stack_set_processing is left by the exception; neither of its callers
\* (lines 58 and 83) has a handler, so it reaches line 50 of lambda_handler
CfnRaise(p) ==
  /\ pc[p] = "cfn_raise"
  /\ Goto(p, "handler_except")
  /\ UNCHANGED <<envVars, event, rec, messages, idx, batch, access_token,
                 stack_operations, stack_set_instances, exc, calls, result>>


\* ------------------------------------------ lifecycle_eventbridge_processing
AccountId(ev) == ev.detail.serviceEventDetails.createManagedAccountStatus.account.accountId
LifecycleState(ev) == ev.detail.serviceEventDetails.createManagedAccountStatus.state

\* a dispatcher that does not look at the state of the notification
LifecycleEventbridgeProcessing_any_state(p) ==
  /\ pc[p] = "lifecycle"
  /\ Goto(p, "telemetry")
  /\ UNCHANGED <<envVars, event, rec, messages, idx, batch, access_token,
                 stack_operations, stack_set_instances, exc, calls, result>>

\* lines 64-70 and 89-90: only a SUCCEEDED notification is processed
LifecycleEventbridgeProcessing(p) ==
  /\ pc[p] = "lifecycle"
  /\ IF LifecycleState(event[p]) = "SUCCEEDED"
       THEN Goto(p, "telemetry")
       ELSE Goto(p, "return")
  /\ UNCHANGED <<envVars, event, rec, messages, idx, batch, access_token,
                 stack_operations, stack_set_instances, exc, calls, result>>

\* a telemetry call whose failure reaches the caller
SendHoneycombEvent_raising(p) ==
  /\ pc[p] = "telemetry"
  /\ \/ /\ Log(p, Call("honeycomb_post", batch[p], <<>>, "ok"))
        /\ Goto(p, "locate")
        /\ UNCHANGED exc
     \/ /\ Log(p, Call("honeycomb_post", batch[p], <<>>, "RequestException"))
        /\ Raise(p, "RequestException", "handler_except")
  /\ UNCHANGED <<envVars, event, rec, messages, idx, batch, access_token,
                 stack_operations, stack_set_instances, result>>

\* line 71 with lines 219-245: send_honeycomb_event; the POST may fail, and the
\* failure is logged as a warning inside the function
SendHoneycombEvent(p) ==
  /\ pc[p] = "telemetry"
  /\ \E outcome \in {"ok", "RequestException"} :
       Log(p, Call("honeycomb_post", batch[p], <<>>, outcome))
  /\ Goto(p, "locate")
  /\ UNCHANGED <<envVars, event, rec, messages, idx, batch, access_token,
                 stack_operations, stack_set_instances, exc, result>>

\* list_stack_instances filtered by account and region: the summaries
\* CloudFormation holds for the triple
Matching(name, account, region) ==
  IF name = ConfigStackSetName(environ) /\ <<account, region>> \in instances
    THEN <<[StackSetId |-> name, Account |-> account, Region |-> region]>>
    ELSE <<>>

RECURSIVE Flatten(_)
Flatten(pages) ==
  IF pages = <<>> THEN <<>> ELSE Head(pages) \o Flatten(Tail(pages))

\* the answers of CloudFormation: an error, a response without "Summaries", or
\* the summaries cut into pages, every page but the last with a NextToken
LocatorOutcomes(matching) ==
  { [error |-> TRUE], [error |-> FALSE, pages |-> <<[ResponseMetadata |-> "200"]>>] }
  \cup
  { [error |-> FALSE,
     pages |-> [i \in 1..Len(ps) |->
                  IF i < Len(ps) THEN [Summaries |-> ps[i], NextToken |-> "next"]
                                 ELSE [Summaries |-> ps[i]]]] :
      ps \in { qs \in UNION { [1..n -> {<<>>, matching}] : n \in 1..MaxPages } :
                 Flatten(qs) = matching } }

\* line 179: the first response of list_stack_instances carries a NextToken
HasNextToken(outcome) ==
  /\ ~outcome.error
  /\ "NextToken" \in DOMAIN outcome.pages[1]

\* lines 168-190: the return value of list_stack_instance_by_account_region.
\* With a NextToken in the first response line 180 calls
\* cfn_client.list_stack_set_instance, which the client does not have: the
\* AttributeError is caught at line 188 and the function returns False.
list_stack_instance_by_account_region(outcome) ==
  IF outcome.error THEN PyFalse
  ELSE IF "Summaries" \notin DOMAIN outcome.pages[1] THEN PyFalse
  ELSE IF "NextToken" \in DOMAIN outcome.pages[1] THEN PyFalse
  ELSE PyList(outcome.pages[1].Summaries)

\* line 74: the Instance Locator is asked for the notified account and region
LocateInstances(p) ==
  /\ pc[p] = "locate"
  /\ LET name == ConfigStackSetName(environ) IN
     \E outcome \in LocatorOutcomes(Matching(name, AccountId(event[p]),
                                             event[p].detail.awsRegion)) :
       /\ stack_set_instances' =
            [stack_set_instances EXCEPT ![p] = list_stack_instance_by_account_region(outcome)]
       /\ Log(p, [Call("list_stack_instances", batch[p], name,
                       IF outcome.error THEN "ClientError" ELSE "ok") EXCEPT
                    !.Accounts = <<AccountId(event[p])>>,
                    !.Regions = <<event[p].detail.awsRegion>>,
                    !.NextToken = HasNextToken(outcome)])
  /\ Goto(p, "check_instances")
  /\ UNCHANGED <<envVars, event, rec, messages, idx, batch, access_token,
                 stack_operations, exc, result>>

\* lines 81-82: the work item of a lifecycle notification
LifecycleMessageBody(name, account_id, region) ==
  <<Entry(name, [target_accounts |-> <<account_id>>, target_regions |-> <<region>>])>>

\* a dispatcher that creates whatever the Instance Locator returned
CheckInstances_always_create(p) ==
  /\ pc[p] = "check_instances"
  /\ messages' = [messages EXCEPT ![p] =
        LifecycleMessageBody(ConfigStackSetName(environ),
                             AccountId(event[p]), event[p].detail.awsRegion)]
  /\ idx' = [idx EXCEPT ![p] = 1]
  /\ batch' = [batch EXCEPT ![p] = @ + 1]
  /\ Goto(p, "get_access_token")
  /\ UNCHANGED <<envVars, event, rec, access_token, stack_operations,
                 stack_set_instances, exc, calls, result>>

\* lines 78-88: len(stack_set_instances) decides; len(False) is a TypeError
CheckInstances(p) ==
  /\ pc[p] = "check_instances"
  /\ IF stack_set_instances[p].type = "bool"
       THEN /\ Raise(p, "TypeError", "handler_except")
            /\ UNCHANGED <<messages, idx, batch>>
     ELSE IF Len(stack_set_instances[p].items) = 0
       THEN /\ messages' = [messages EXCEPT ![p] =
                 LifecycleMessageBody(ConfigStackSetName(environ),
                                      AccountId(event[p]), event[p].detail.awsRegion)]
            /\ idx' = [idx EXCEPT ![p] = 1]
            /\ batch' = [batch EXCEPT ![p] = @ + 1]
            /\ Goto(p, "get_access_token")
            /\ UNCHANGED exc
     ELSE /\ Goto(p, "return")
          /\ UNCHANGED <<messages, idx, batch, exc>>
  /\ UNCHANGED <<envVars, event, rec, access_token, stack_operations,
                 stack_set_instances, calls, result>>

\* ------------------------------------------------------------ specification
\* one step of the code of invocation p
Handler(p) ==
  \/ LambdaHandler(p)
  \/ LambdaHandlerExcept(p)
  \/ LambdaHandlerEnd(p)
  \/ StackSetSnsProcessing(p)
  \/ LifecycleEventbridgeProcessing(p)
  \/ SendHoneycombEvent(p)
  \/ LocateInstances(p)
  \/ CheckInstances(p)
  \/ GetAccessToken(p)
  \/ CheckToken(p)
  \/ EntryLoop(p)
  \/ DescribeStackSet(p)
  \/ ListStackSetOperations(p)
  \/ CreateStackInstances(p)
  \/ SleepBeforeRequeue(p)
  \/ PublishRequeue(p)
  \/ CfnExcept(p)
  \/ CfnRaise(p)

\* invocations one after the other, for events of every kind
Next ==
  \E p \in SeqProcs :
    \/ DeliverQueued(p, MaxInvocations)
    \/ DeliverRequeued(p, MaxInvocations)
    \/ DeliverLifecycle(p, MaxInvocations)
    \/ DeliverOther(p, MaxInvocations)
    \/ Handler(p)

Spec == Init /\ [][Next]_vars

\* the lifecycle path alone: lifecycle notifications, delivered any number of
\* times, and the deliveries of the work items they re-queued
NextLifecycle ==
  \E p \in SeqProcs :
    \/ DeliverLifecycle(p, MaxDeliveries)
    \/ DeliverRequeued(p, MaxDeliveries)
    \/ Handler(p)

SpecLifecycle == Init /\ [][NextLifecycle]_vars

\* the transport delivers to invocation p the event it delivered to q
\* (at-least-once delivery), while q is at any point of its run
Redeliver(p, q, limit) ==
  /\ event[q] # NoEvent
  /\ Invoke(p, event[q], "Records" \in DOMAIN event[q], limit)

\* a queued event of one record
DeliverSingle(p, limit) ==
  \E ev \in { e \in QueuedEvents : Len(e.Records) = 1 } : Invoke(p, ev, TRUE, limit)

\* two Lambda instances running concurrently, one invocation for each of the
\* two slots: an event is delivered to the first and delivered again to the
\* second, and the steps of the two invocations interleave
NextRedelivery ==
  \/ DeliverSingle(1, Cardinality(Procs))
  \/ DeliverLifecycle(1, Cardinality(Procs))
  \/ Redeliver(2, 1, Cardinality(Procs))
  \/ \E p \in Procs : Handler(p)

SpecRedelivery == Init /\ [][NextRedelivery]_vars

\* the steps of an invocation for a queued event
QueueHandler(p) ==
  \/ LambdaHandler(p)
  \/ LambdaHandlerExcept(p)
  \/ LambdaHandlerEnd(p)
  \/ StackSetSnsProcessing(p)
  \/ GetAccessToken(p)
  \/ CheckToken(p)
  \/ EntryLoop(p)
  \/ DescribeStackSet(p)
  \/ ListStackSetOperations(p)
  \/ CreateStackInstances(p)
  \/ SleepBeforeRequeue(p)
  \/ PublishRequeue(p)
  \/ CfnExcept(p)
  \/ CfnRaise(p)

\* line 154: the texts that a re-queue can publish
RetryTexts == { dumps(<<e>>) : e \in [name : GroupNames, params : Params] }

\* the transport delivers a published text, in an event of one record
DeliverText(p, text) ==
  /\ text \in topic
  /\ Start(p, [Records |-> <<SnsRecord(text)>>], FALSE)
  /\ UNCHANGED started

\* a queued event of one record from another producer; the invocations of
\* these runs are not counted
DeliverFresh(p) ==
  /\ \E ev \in { e \in QueuedEvents : Len(e.Records) = 1 } : Start(p, ev, TRUE)
  /\ UNCHANGED started

\* the queue path in runs without end: queued events keep arriving and every
\* published text can be delivered again and again
NextRetry ==
  \E p \in SeqProcs :
    \/ DeliverFresh(p)
    \/ \E text \in RetryTexts : DeliverText(p, text)
    \/ QueueHandler(p)

\* An invocation runs to its end (the sleep of line 151 ends too), and the
\* transport delivers every published text: a text on the topic is delivered
\* again whenever the runtime is free again and again.
FairRetry ==
  /\ \A p \in SeqProcs : WF_vars(QueueHandler(p))
  /\ \A p \in SeqProcs : \A text \in RetryTexts : SF_vars(DeliverText(p, text))

SpecRetry == Init /\ [][NextRetry]_vars /\ FairRetry


\* ======================================================= the claims' terms
IsLifecycle(ev) ==
  /\ "Records" \notin DOMAIN ev
  /\ "detail" \in DOMAIN ev
  /\ "eventName" \in DOMAIN ev.detail
  /\ ev.detail.eventName = "CreateManagedAccount"

\* the argument of the b-th call of cfn_stack_set_processing in invocation p
BodyOf(p, b) ==
  IF "Records" \in DOMAIN event[p]
    THEN loads(event[p].Records[b].Sns.Message)
    ELSE LifecycleMessageBody(ConfigStackSetName(environ),
                              AccountId(event[p]), event[p].detail.awsRegion)

\* the positions in calls[p] of the calls op issued for entry name of batch b
Issued(p, op, b, name) ==
  { i \in DOMAIN calls[p] :
      /\ calls[p][i].op = op
      /\ calls[p][i].batch = b
      /\ calls[p][i].StackSetName = name }

\* invocation p stands at one of labels, working on entry name of batch b
Standing(p, labels, b, name) ==
  /\ pc[p] \in labels
  /\ batch[p] = b
  /\ idx[p] <= Len(messages[p])
  /\ CurrentEntry(p).name = name

OrchestratorOps ==
  {"describe_stack_set", "list_stack_set_operations", "create_stack_instances", "publish"}

\* C1: an entry whose stack set was described and whose completed operation
\* listing shows no RUNNING or STOPPING operation gets exactly one
\* create_stack_instances call (none only while the call is still to be made),
\* with the entry's accounts and regions and FailureToleranceCount 999, and no
\* re-queue publish.
C1_QuietEntryCreatesOnce ==
  \A p \in Procs : \A i \in DOMAIN calls[p] :
    LET c == calls[p][i]
        creates == Issued(p, "create_stack_instances", c.batch, c.StackSetName)
        params == Lookup(BodyOf(p, c.batch), c.StackSetName)
    IN  ( /\ c.op = "list_stack_set_operations"
          /\ c.outcome = "quiet"
          /\ \E d \in Issued(p, "describe_stack_set", c.batch, c.StackSetName) :
               d < i /\ calls[p][d].outcome = "ok" )
        =>
        /\ Cardinality(creates) =
             IF Standing(p, {"create"}, c.batch, c.StackSetName) THEN 0 ELSE 1
        /\ \A j \in creates :
             /\ j > i
             /\ calls[p][j].Accounts = params.target_accounts
             /\ calls[p][j].Regions = params.target_regions
             /\ calls[p][j].FailureToleranceCount = 999
        /\ Issued(p, "publish", c.batch, c.StackSetName) = {}

C1_Witness ==
  \E p \in Procs :
    /\ pc[p] = "done"
    /\ \E i, j \in DOMAIN calls[p] :
         /\ i < j
         /\ calls[p][i].op = "list_stack_set_operations"
         /\ calls[p][i].outcome = "quiet"
         /\ calls[p][j].op = "create_stack_instances"
         /\ calls[p][j].batch = calls[p][i].batch
         /\ calls[p][j].StackSetName = calls[p][i].StackSetName
         /\ Len(calls[p][j].Accounts) = 2

\* C2: an entry whose operation listing holds a RUNNING or STOPPING operation
\* on any page gets no create_stack_instances call and exactly one publish to
\* the re-queue topic (none only while the publish is still to be made); the
\* published message holds that entry alone, and the 20-second sleep was
\* requested before the publish.
C2_BusyEntryRequeuesOnce ==
  \A p \in Procs : \A i \in DOMAIN calls[p] :
    LET c == calls[p][i]
        publishes == Issued(p, "publish", c.batch, c.StackSetName)
        params == Lookup(BodyOf(p, c.batch), c.StackSetName)
    IN  ( c.op = "list_stack_set_operations" /\ c.outcome = "busy" )
        =>
        /\ Issued(p, "create_stack_instances", c.batch, c.StackSetName) = {}
        /\ Cardinality(publishes) =
             IF Standing(p, {"sleep", "publish"}, c.batch, c.StackSetName) THEN 0 ELSE 1
        /\ \A j \in publishes :
             /\ calls[p][j].TopicArn = lacework_account_sns
             /\ calls[p][j].Message = dumps(<<Entry(c.StackSetName, params)>>)
             /\ \E k \in Issued(p, "sleep", c.batch, c.StackSetName) :
                  i < k /\ k < j /\ calls[p][k].seconds = 20

C2_Witness ==
  \E p \in Procs :
    /\ pc[p] = "done"
    /\ \E i, j \in DOMAIN calls[p] :
         /\ i < j
         /\ calls[p][i].op = "list_stack_set_operations"
         /\ calls[p][i].outcome = "busy"
         /\ calls[p][j].op = "publish"
         /\ calls[p][j].batch = calls[p][i].batch
         /\ calls[p][j].StackSetName = calls[p][i].StackSetName
         /\ Len(BodyOf(p, calls[p][i].batch)) = 2


\* C3: as long as only lifecycle notifications and the work items they
\* re-queued have been delivered, at most one create_stack_instances call has
\* been issued for any account and region of the configured stack set (here
\* even counting only the calls that CloudFormation accepted).
C3_DuplicateSuppression ==
  ~queueInput => \A t \in Places : created[t] <= 1

\* C4: when get_access_token returned None for a batch, no describe, list,
\* create or publish call is issued for any entry of that batch, and the
\* Orchestrator is left without entering the loop over the entries.
C4_NoTokenNoCalls ==
  \A p \in Procs : \A i \in DOMAIN calls[p] :
    LET c == calls[p][i] IN
    ( c.op = "get_secret_value" /\ c.AccessToken = NoneValue )
    =>
    /\ \A j \in DOMAIN calls[p] :
         calls[p][j].batch = c.batch => calls[p][j].op \notin OrchestratorOps
    /\ batch[p] = c.batch =>
         pc[p] \in {"check_token", "sns_loop", "handler_except", "return", "done"}

C4_Witness ==
  \E p \in Procs :
    /\ pc[p] = "done"
    /\ \E i \in DOMAIN calls[p] :
         /\ calls[p][i].op = "get_secret_value"
         /\ calls[p][i].outcome = "ok"
         /\ calls[p][i].AccessToken = NoneValue
         /\ Len(BodyOf(p, calls[p][i].batch)) = 2

\* C5: an entry whose describe_stack_set call reported that the stack set does
\* not exist gets neither a create_stack_instances call nor a re-queue publish.
C5_NotFoundNoRequeueNoCreate ==
  \A p \in Procs : \A i \in DOMAIN calls[p] :
    LET c == calls[p][i] IN
    ( c.op = "describe_stack_set" /\ c.outcome = "StackSetNotFoundException" )
    =>
    /\ Issued(p, "create_stack_instances", c.batch, c.StackSetName) = {}
    /\ Issued(p, "publish", c.batch, c.StackSetName) = {}
    /\ Issued(p, "sleep", c.batch, c.StackSetName) = {}

C5_Witness ==
  \E p \in Procs :
    /\ pc[p] = "done"
    /\ \E i \in DOMAIN calls[p] :
         /\ calls[p][i].op = "describe_stack_set"
         /\ calls[p][i].outcome = "StackSetNotFoundException"

\* C6: when the handler has ended, an entry whose stack set did not exist or
\* whose create_stack_instances call failed has not kept the entries and the
\* records after it from being processed: every entry of its batch was
\* described and every record of the event was taken up.
C6_PartialFailure ==
  \A p \in Procs :
    pc[p] = "done" =>
      \A i \in DOMAIN calls[p] :
        LET c == calls[p][i] IN
        ( \/ c.op = "describe_stack_set" /\ c.outcome = "StackSetNotFoundException"
          \/ c.op = "create_stack_instances" /\ c.outcome = "ClientError" )
        =>
        /\ \A k \in 1..Len(BodyOf(p, c.batch)) :
             Issued(p, "describe_stack_set", c.batch, BodyOf(p, c.batch)[k].name) # {}
        /\ "Records" \in DOMAIN event[p] => rec[p] > Len(event[p].Records)

\* C7: cfn_stack_set_processing is never left by an exception.
C7_OrchestratorNeverRaises ==
  \A p \in Procs : pc[p] # "cfn_raise"

\* C8: lambda_handler always ends in a normal return, whatever the event and
\* whatever was raised inside the two processing functions.
C8_HandlerAlwaysReturns ==
  \A p \in Procs :
    /\ result[p] # "raised"
    /\ pc[p] = "done" => result[p] = "returned" /\ exc[p] = "none"

C8_Witness ==
  \E p \in Procs :
    /\ pc[p] = "done"
    /\ result[p] = "returned"
    /\ \E i \in DOMAIN calls[p] :
         /\ calls[p][i].op = "create_stack_instances"
         /\ calls[p][i].outcome = "ClientError"

\* C9: a CreateManagedAccount notification whose state is not SUCCEEDED
\* produces no work item and no call of the Orchestrator: no credential fetch,
\* describe, list, create or publish call.
C9_FailedLifecycleNoWork ==
  \A p \in Procs :
    ( IsLifecycle(event[p]) /\ LifecycleState(event[p]) # "SUCCEEDED" )
    =>
    /\ batch[p] = 0
    /\ messages[p] = <<>>
    /\ \A i \in DOMAIN calls[p] :
         calls[p][i].op \notin OrchestratorOps \cup {"get_secret_value"}

C9_Witness ==
  \E p \in Procs :
    /\ pc[p] = "done"
    /\ IsLifecycle(event[p])
    /\ LifecycleState(event[p]) = "FAILED"

\* C10: a SUCCEEDED notification for which the Instance Locator returned one
\* or more instances leads to no call of the Orchestrator and no
\* create_stack_instances call.
C10_ExistingInstanceNoCreate ==
  \A p \in Procs :
    ( /\ IsLifecycle(event[p])
      /\ LifecycleState(event[p]) = "SUCCEEDED"
      /\ stack_set_instances[p].type = "list"
      /\ Len(stack_set_instances[p].items) >= 1 )
    =>
    /\ batch[p] = 0
    /\ messages[p] = <<>>
    /\ \A i \in DOMAIN calls[p] :
         calls[p][i].op \notin OrchestratorOps \cup {"get_secret_value"}

C10_Witness ==
  \E p \in Procs :
    /\ pc[p] = "done"
    /\ IsLifecycle(event[p])
    /\ LifecycleState(event[p]) = "SUCCEEDED"
    /\ stack_set_instances[p].type = "list"
    /\ Len(stack_set_instances[p].items) >= 1
    /\ stack_set_instances[p].items[1].Account = AccountId(event[p])

\* C11: a SUCCEEDED notification for which the Instance Locator returned the
\* failure value False is processed like one without instances: once the
\* branch on the result is taken, a work item with the notified account and
\* region alone has been handed to the Orchestrator.
C11_SentinelProceedsToCreate ==
  \A p \in Procs :
    ( /\ IsLifecycle(event[p])
      /\ LifecycleState(event[p]) = "SUCCEEDED"
      /\ \E i \in DOMAIN calls[p] : calls[p][i].op = "list_stack_instances"
      /\ stack_set_instances[p] = PyFalse
      /\ pc[p] # "check_instances" )
    =>
    /\ batch[p] = 1
    /\ messages[p] = LifecycleMessageBody(ConfigStackSetName(environ),
                                          AccountId(event[p]), event[p].detail.awsRegion)

\* C12: when the first list_stack_instances response carries a continuation
\* token, the Instance Locator returns a list, and the list holds every
\* instance CloudFormation has for the account and region, one element each.
C12_LocatorDrainsPagination ==
  \A p \in Procs :
    ( /\ pc[p] = "check_instances"
      /\ calls[p][Len(calls[p])].op = "list_stack_instances"
      /\ calls[p][Len(calls[p])].NextToken )
    =>
    /\ stack_set_instances[p].type = "list"
    /\ stack_set_instances[p].items =
         Matching(ConfigStackSetName(environ), AccountId(event[p]),
                  event[p].detail.awsRegion)

\* C13: when the same queued event is delivered to two invocations and the
\* operation listing of an entry's stack set shows no busy operation in both,
\* each of the two issues its own create_stack_instances call for the entry
\* (none only while its call is still to be made), whatever instances the
\* other one has created; and an invocation for a queued event never calls
\* list_stack_instances.
C13_QueueRedeliveryCreatesAgain ==
  \A p, q \in Procs :
    ( p # q /\ "Records" \in DOMAIN event[p] /\ event[q] = event[p] )
    =>
    /\ \A i \in DOMAIN calls[p] : calls[p][i].op # "list_stack_instances"
    /\ \A i \in DOMAIN calls[p] : \A j \in DOMAIN calls[q] :
         LET c == calls[p][i]  d == calls[q][j] IN
         ( /\ c.op = "list_stack_set_operations" /\ c.outcome = "quiet"
           /\ d.op = "list_stack_set_operations" /\ d.outcome = "quiet"
           /\ d.batch = c.batch /\ d.StackSetName = c.StackSetName )
         =>
         \A r \in {p, q} :
           Cardinality(Issued(r, "create_stack_instances", c.batch, c.StackSetName)) =
             IF Standing(r, {"create"}, c.batch, c.StackSetName) THEN 0 ELSE 1

C13_Witness ==
  /\ \A p \in Procs : pc[p] = "done"
  /\ "Records" \in DOMAIN event[1]
  /\ event[2] = event[1]
  /\ \A p \in Procs : \E i, j \in DOMAIN calls[p] :
       /\ i < j
       /\ calls[p][i].op = "list_stack_set_operations"
       /\ calls[p][i].outcome = "quiet"
       /\ calls[p][j].op = "create_stack_instances"
       /\ calls[p][j].outcome = "ok"
       /\ calls[p][j].StackSetName = ConfigStackSetName(environ)
       /\ TargetPlaces(calls[p][j]) = Places
       /\ instances = Places

\* the calls of invocation p other than the telemetry POST, in order
OtherCalls(p) == SelectSeq(calls[p], LAMBDA c : c.op # "honeycomb_post")

\* what a call asks for, without what the service answered
Request(c) ==
  [c EXCEPT !.outcome = "ok", !.NextToken = FALSE,
            !.AccessToken = IF c.op = "get_secret_value" THEN NoneValue ELSE @]

PostOutcomes(p) ==
  { calls[p][i].outcome : i \in { j \in DOMAIN calls[p] : calls[p][j].op = "honeycomb_post" } }

\* C14: take two runs for the same SUCCEEDED notification, the telemetry POST
\* succeeding in one and failing in the other.  As long as the services
\* answered the other calls of both alike, the next call of both is the same
\* call, and when both have ended they have issued the same number of calls:
\* the sequences of locator, credential, describe, list, create and publish
\* calls are the same.  No run issues more than one telemetry POST.
C14_TelemetryNoControlFlow ==
  /\ \A p \in Procs :
       Cardinality({ i \in DOMAIN calls[p] : calls[p][i].op = "honeycomb_post" }) <= 1
  /\ \A p, q \in Procs :
       ( /\ IsLifecycle(event[p])
         /\ event[q] = event[p]
         /\ PostOutcomes(p) = {"ok"}
         /\ PostOutcomes(q) = {"RequestException"}
         /\ stack_set_instances[p] = stack_set_instances[q] )
       =>
       LET P == OtherCalls(p)
           Q == OtherCalls(q)
           n == IF Len(P) < Len(Q) THEN Len(P) ELSE Len(Q)
       IN  /\ \A k \in 1..n :
                (\A m \in 1..(k - 1) : P[m] = Q[m]) => Request(P[k]) = Request(Q[k])
           /\ ( /\ pc[p] = "done" /\ pc[q] = "done"
                /\ \A m \in 1..n : P[m] = Q[m] )
              => Len(P) = Len(Q)

C14_Witness ==
  \E p, q \in Procs :
    /\ pc[p] = "done" /\ pc[q] = "done"
    /\ IsLifecycle(event[p])
    /\ event[q] = event[p]
    /\ PostOutcomes(p) = {"ok"}
    /\ PostOutcomes(q) = {"RequestException"}
    /\ OtherCalls(p) = OtherCalls(q)
    /\ \E i \in DOMAIN calls[q] : calls[q][i].op = "create_stack_instances"

\* the services answer as C15 assumes: the credential resolves, the stack set
\* exists and its operations can be listed, and every re-queue publish succeeds
ReliableServices ==
  \A p \in Procs : \A i \in DOMAIN calls[p] :
    LET c == calls[p][i] IN
    /\ c.op = "get_secret_value" => c.AccessToken # NoneValue
    /\ c.op \in {"describe_stack_set", "publish"} => c.outcome = "ok"
    /\ c.op = "list_stack_set_operations" => c.outcome # "ClientError"

\* some invocation was answered that the stack set has a busy operation
BusySeen ==
  \E p \in Procs : \E i \in DOMAIN calls[p] :
    calls[p][i].op = "list_stack_set_operations" /\ calls[p][i].outcome = "busy"

\* the entry e of a message body was found busy (and so is re-queued)
Deferred(e) ==
  \E p \in Procs : \E i \in DOMAIN calls[p] :
    /\ calls[p][i].op = "list_stack_set_operations"
    /\ calls[p][i].outcome = "busy"
    /\ calls[p][i].StackSetName = e.name
    /\ Lookup(BodyOf(p, calls[p][i].batch), e.name) = e.params

CreateCalled(e) ==
  \E p \in Procs : \E i \in DOMAIN calls[p] :
    /\ calls[p][i].op = "create_stack_instances"
    /\ calls[p][i].StackSetName = e.name
    /\ calls[p][i].Accounts = e.params.target_accounts
    /\ calls[p][i].Regions = e.params.target_regions

\* C15: if the services always answer (credential, describe, listing,
\* publish) and from some time on no listing shows a RUNNING or STOPPING
\* operation, then every entry that was found busy is followed, later, by a
\* create_stack_instances call for the same stack set, accounts and regions.
C15_EventualRetry ==
  ([]ReliableServices /\ <>[]~BusySeen)
  => \A e \in [name : GroupNames, params : Params] : (Deferred(e) ~> CreateCalled(e))

C15_Witness ==
  \E p \in Procs :
    /\ "Records" \in DOMAIN event[p]
    /\ event[p].Records[1].Sns.Message \in topic
    /\ ReliableServices
    /\ \E i \in DOMAIN calls[p] :
         /\ calls[p][i].op = "create_stack_instances"
         /\ calls[p][i].StackSetName = ConfigStackSetName(environ)
         /\ dumps(<<Entry(calls[p][i].StackSetName,
                          [target_accounts |-> calls[p][i].Accounts,
                           target_regions |-> calls[p][i].Regions])>>)
              = event[p].Records[1].Sns.Message

\* invocation p found the stack set of its current entry quiet and has its
\* create_stack_instances call still to make
ObservedNotBusy(p) ==
  /\ pc[p] = "create"
  /\ stack_operations[p]
  /\ \E i \in Issued(p, "list_stack_set_operations", batch[p], CurrentEntry(p).name) :
       calls[p][i].outcome = "quiet"

\* C16: the busy-check does not lock the stack set.  Whenever an invocation
\* has observed "not busy", its create_stack_instances call can be issued,
\* also while another invocation has observed "not busy" for the same stack
\* set and also after that one has issued its create call: nothing is checked
\* again between the observation and the call.
C16_BusyCheckIsNoLock ==
  \A p \in Procs :
    ObservedNotBusy(p) =>
      /\ ENABLED CreateStackInstances(p)
      /\ \A q \in Procs \ {p} :
           ( /\ ObservedNotBusy(q)
             /\ CurrentEntry(q).name = CurrentEntry(p).name )
           => ENABLED CreateStackInstances(q)

\* both invocations have observed "not busy" for the same stack set, and
\* neither has issued its create call yet
C16_Witness ==
  /\ \A p \in Procs : ObservedNotBusy(p)
  /\ CurrentEntry(1).name = CurrentEntry(2).name
  /\ CurrentEntry(1).name = ConfigStackSetName(environ)
  /\ \A p \in Procs : \A i \in DOMAIN calls[p] :
       calls[p][i].op # "create_stack_instances"

\* C17 as claimed: a busy entry does not hold up the entries after it; no
\* describe_stack_set call of a batch is issued after the invocation has
\* waited out the 20-second delay of an entry of the same batch.
C17_BusyEntryDoesNotBlock ==
  \A p \in Procs : \A i, j \in DOMAIN calls[p] :
    ~( /\ i < j
       /\ calls[p][i].op = "sleep"
       /\ calls[p][i].seconds > 0
       /\ calls[p][j].op = "describe_stack_set"
       /\ calls[p][j].batch = calls[p][i].batch )

\* C17 as amended: a busy entry holds up the entries after it; every
\* describe_stack_set call issued in a batch after an entry of the batch was
\* found busy comes after the 20-second sleep and the publish of that entry.
C17_BusyEntryDelaysNext ==
  \A p \in Procs : \A i, j \in DOMAIN calls[p] :
    ( /\ i < j
      /\ calls[p][i].op = "list_stack_set_operations"
      /\ calls[p][i].outcome = "busy"
      /\ calls[p][j].op = "describe_stack_set"
      /\ calls[p][j].batch = calls[p][i].batch )
    =>
    \E k, m \in DOMAIN calls[p] :
      /\ i < k /\ k < m /\ m < j
      /\ calls[p][k].op = "sleep"
      /\ calls[p][k].seconds = SleepSeconds
      /\ calls[p][k].StackSetName = calls[p][i].StackSetName
      /\ calls[p][m].op = "publish"
      /\ calls[p][m].StackSetName = calls[p][i].StackSetName

C17_Witness ==
  \E p \in Procs : \E i, j \in DOMAIN calls[p] :
    /\ i < j
    /\ calls[p][i].op = "list_stack_set_operations"
    /\ calls[p][i].outcome = "busy"
    /\ calls[p][j].op = "describe_stack_set"
    /\ calls[p][j].batch = calls[p][i].batch
    /\ calls[p][j].StackSetName # calls[p][i].StackSetName

\* the position of entry name in a message body
PositionOf(body, name) == CHOOSE k \in 1..Len(body) : body[k].name = name

\* C18: when the re-queue publish of an entry failed, the entry gets no
\* create_stack_instances call and no other publish, no exception leaves the
\* publish, and the entry after it in the batch, if there is one, is taken up:
\* it is described, or is the current entry and about to be.
C18_PublishFailureAbsorbed ==
  \A p \in Procs : \A i \in DOMAIN calls[p] :
    LET c == calls[p][i]
        body == BodyOf(p, c.batch)
        k == PositionOf(body, c.StackSetName)
    IN  ( c.op = "publish" /\ c.outcome = "ClientError" )
        =>
        /\ Issued(p, "create_stack_instances", c.batch, c.StackSetName) = {}
        /\ Issued(p, "publish", c.batch, c.StackSetName) = {i}
        /\ i = Len(calls[p]) =>
             /\ pc[p] \notin {"cfn_except", "cfn_raise"}
             /\ exc[p] \in {"none", "JSONDecodeError"}
        /\ k < Len(body) =>
             \/ Issued(p, "describe_stack_set", c.batch, body[k + 1].name) # {}
             \/ /\ batch[p] = c.batch
                /\ pc[p] \in {"entry_loop", "describe"}
                /\ idx[p] = k + 1

C18_Witness ==
  \E p \in Procs : \E i, j \in DOMAIN calls[p] :
    /\ pc[p] = "done"
    /\ i < j
    /\ calls[p][i].op = "publish"
    /\ calls[p][i].outcome = "ClientError"
    /\ calls[p][j].op = "describe_stack_set"
    /\ calls[p][j].batch = calls[p][i].batch
    /\ calls[p][j].StackSetName # calls[p][i].StackSetName

\* C19: within one invocation, a create_stack_instances call or a re-queue
\* publish for an entry comes only after a describe_stack_set call for that
\* entry that succeeded and, after it, a listing of the stack set's operations
\* that was read to its end (quiet before a create, busy before a publish);
\* and an entry gets at most one call of the two kinds together.
C19_PerEntryStateMachine ==
  \A p \in Procs : \A j \in DOMAIN calls[p] :
    LET c == calls[p][j] IN
    c.op \in {"create_stack_instances", "publish"}
    =>
    /\ \E d, l \in DOMAIN calls[p] :
         /\ d < l /\ l < j
         /\ calls[p][d].op = "describe_stack_set"
         /\ calls[p][d].outcome = "ok"
         /\ calls[p][l].op = "list_stack_set_operations"
         /\ calls[p][l].outcome = (IF c.op = "publish" THEN "busy" ELSE "quiet")
         /\ \A x \in {d, l} :
              /\ calls[p][x].batch = c.batch
              /\ calls[p][x].StackSetName = c.StackSetName
    /\ Cardinality(Issued(p, "create_stack_instances", c.batch, c.StackSetName)
                   \cup Issued(p, "publish", c.batch, c.StackSetName)) = 1

C19_Witness ==
  \E p \in Procs : \E i, j \in DOMAIN calls[p] :
    /\ pc[p] = "done"
    /\ calls[p][i].op = "publish"
    /\ calls[p][j].op = "create_stack_instances"
    /\ calls[p][j].batch = calls[p][i].batch
    /\ Len(BodyOf(p, calls[p][i].batch)) = 2

\* the part of a URL before its first "."
BeforeFirstDot(url) ==
  CHOOSE t \in { SubSeq(url, 1, n) : n \in 0..Len(url) } :
    /\ \A i \in 1..Len(t) : t[i] # "."
    /\ Len(t) < Len(url) => url[Len(t) + 1] = "."

\* C20: a SUCCEEDED notification for which the Instance Locator returned an
\* empty list hands the Orchestrator exactly one message body, of one entry:
\* its name is the prefix followed by the sub-tenant name if one is configured
\* and by the part of lacework_url before the first "." if not, its
\* target_accounts is the notified account alone and its target_regions the
\* notified region alone.
C20_EmptyLocatorOneWorkItem ==
  \A p \in Procs :
    ( /\ IsLifecycle(event[p])
      /\ LifecycleState(event[p]) = "SUCCEEDED"
      /\ \E i \in DOMAIN calls[p] : calls[p][i].op = "list_stack_instances"
      /\ stack_set_instances[p] = PyList(<<>>)
      /\ pc[p] # "check_instances" )
    =>
    /\ batch[p] = 1
    /\ Len(messages[p]) = 1
    /\ messages[p][1].name =
         CONFIG_NAME_PREFIX \o
           (IF environ.lacework_sub_account_name # <<>>
              THEN environ.lacework_sub_account_name
              ELSE BeforeFirstDot(environ.lacework_url))
    /\ messages[p][1].params.target_accounts = <<AccountId(event[p])>>
    /\ messages[p][1].params.target_regions = <<event[p].detail.awsRegion>>

C20_Witness ==
  \E p \in Procs :
    /\ pc[p] = "done"
    /\ IsLifecycle(event[p])
    /\ environ.lacework_sub_account_name = <<>>
    /\ stack_set_instances[p] = PyList(<<>>)
    /\ \E i \in DOMAIN calls[p] :
         /\ calls[p][i].op = "create_stack_instances"
         /\ calls[p][i].StackSetName = CONFIG_NAME_PREFIX \o <<"acme">>
         /\ calls[p][i].Accounts = <<AccountId(event[p])>>
         /\ calls[p][i].Regions = <<event[p].detail.awsRegion>>

====
